---- MODULE Spec2Model ----
(***************************************************************************)
(* Model of common/nutconfbin.cpp: the command line option store (class    *)
(* Options), the nutconf option validation (class NutConfOptions) and the  *)
(* main routine, which merges the validated records into upsmon.conf,      *)
(* upsd.conf and ups.conf.                                                 *)
(*                                                                         *)
(* A std::string is a tuple of one-character strings, so that the code's   *)
(* character tests (arg[0], arg[1], arg.size(), substr) are computed and   *)
(* not assumed.  argv holds argv[1..argc-1]; argv[0] is never read by the  *)
(* option store.                                                           *)
(***************************************************************************)
EXTENDS Integers, Sequences, FiniteSets, TLC

(* ------------------------------------------------------------------ *)
(* Bounds of the explored command lines                               *)
(* ------------------------------------------------------------------ *)
MaxArgc == 4

MaxChunks == 2

(* ------------------------------------------------------------------ *)
(* String literals                                                    *)
(* ------------------------------------------------------------------ *)
sDash == <<"-">>

dDash == <<"-", "-">>

s_autoconfigure == <<"a","u","t","o","c","o","n","f","i","g","u","r","e">>

s_is_configured == <<"i","s","-","c","o","n","f","i","g","u","r","e","d">>

s_local == <<"l","o","c","a","l">>

s_system == <<"s","y","s","t","e","m">>

s_mode == <<"m","o","d","e">>

s_help == <<"h","e","l","p">>

s_set_monitor == <<"s","e","t","-","m","o","n","i","t","o","r">>

s_add_monitor == <<"a","d","d","-","m","o","n","i","t","o","r">>

s_set_listen == <<"s","e","t","-","l","i","s","t","e","n">>

s_add_listen == <<"a","d","d","-","l","i","s","t","e","n">>

s_set_device == <<"s","e","t","-","d","e","v","i","c","e">>

s_add_device == <<"a","d","d","-","d","e","v","i","c","e">>

s_standalone == <<"s","t","a","n","d","a","l","o","n","e">>

s_netserver == <<"n","e","t","s","e","r","v","e","r">>

s_netclient == <<"n","e","t","c","l","i","e","n","t">>

s_controlled == <<"c","o","n","t","r","o","l","l","e","d">>

s_manual == <<"m","a","n","u","a","l">>

s_none == <<"n","o","n","e">>

s_master == <<"m","a","s","t","e","r">>

(* Characters in ASCII order; CharRank is the order std::string compares by *)
Chars == <<"-", "0", "1", "2", "3", "4", "5", "6", "7", "8", "9", ":",
           "a", "b", "c", "d", "e", "f", "g", "h", "i", "j", "k", "l", "m",
           "n", "o", "p", "q", "r", "s", "t", "u", "v", "w", "x", "y", "z">>

CharRank(c) == CHOOSE k \in 1..Len(Chars) : Chars[k] = c

(* std::less<std::string>: lexicographic comparison, the multimap's key order *)
StrLess(a, b) ==
    \E k \in 1..(Len(a) + 1) :
        /\ \A j \in 1..(k - 1) : j <= Len(b) /\ a[j] = b[j]
        /\ \/ k = Len(a) + 1 /\ Len(b) >= k
           \/ k <= Len(a) /\ k <= Len(b) /\ CharRank(a[k]) < CharRank(b[k])

(* std::string::substr(pos): the characters from 0-based position pos on *)
substr(s, pos) == SubSeq(s, pos + 1, Len(s))

VARIABLES argv, pc, i, m_last, m_args, m_args_pos, m_single, m_double,
          list, opt, m_unknown, m_errors, options, exit_code, io

vars == <<argv, pc, i, m_last, m_args, m_args_pos, m_single, m_double,
          list, opt, m_unknown, m_errors, options, exit_code, io>>

(* The state of the process outside the options object: exit_code is the  *)
(* status the process ended with (NotExited while it runs), io the file   *)
(* operations done so far, in order                                       *)
mainVars == <<exit_code, io>>

NotExited == -1

(* ------------------------------------------------------------------ *)
(* class Options: the option store                                    *)
(*                                                                    *)
(* A Map is the sequence of the multimap's entries in iteration       *)
(* order.  An entry is [key, args, argpos, node]: node is the         *)
(* identity of the multimap node (the argv index of the token that    *)
(* created it; m_last points to a node), argpos[k] is the argv index  *)
(* args[k] was read from.  NULL is 0.                                 *)
(* ------------------------------------------------------------------ *)
NULL == 0

(* Variant: the new entry goes to the lower bound of its key *)
MapInsert_LowerBound(map, key, node) ==
    LET lb == Cardinality({k \in 1..Len(map) : StrLess(map[k].key, key)})
        entry == [key |-> key, args |-> <<>>, argpos |-> <<>>, node |-> node]
    IN  SubSeq(map, 1, lb) \o <<entry>> \o SubSeq(map, lb + 1, Len(map))

(* std::multimap::insert: the new entry goes to the upper bound of its key *)
MapInsert(map, key, node) ==
    LET ub == Cardinality({k \in 1..Len(map) : ~StrLess(key, map[k].key)})
        entry == [key |-> key, args |-> <<>>, argpos |-> <<>>, node |-> node]
    IN  SubSeq(map, 1, ub) \o <<entry>> \o SubSeq(map, ub + 1, Len(map))

(* Arguments::push_back on the list the pointer last designates within map *)
PushArg(map, last, arg, at) ==
    [k \in 1..Len(map) |->
        IF map[k].node = last
        THEN [map[k] EXCEPT !.args = Append(@, arg), !.argpos = Append(@, at)]
        ELSE map[k]]

(* std::multimap::find: index of the first entry with the key, 0 for end(). *)
(* The standard lets find return any entry with the key; the red-black tree *)
(* implementations of libstdc++, libc++ and MSVC return the first one, and  *)
(* the callers, which walk forward from the result, depend on that.         *)
MapFind(map, key) ==
    IF \E k \in 1..Len(map) : map[k].key = key
    THEN CHOOSE k \in 1..Len(map) :
            /\ map[k].key = key
            /\ \A j \in 1..(k - 1) : map[j].key # key
    ELSE 0

RECURSIVE CountFrom(_, _, _)
CountFrom(map, key, entry) ==
    IF entry <= Len(map) /\ map[entry].key = key
    THEN 1 + CountFrom(map, key, entry + 1)
    ELSE 0

(* Options::count(map, opt) *)
countMap(map, key) ==
    LET entry == MapFind(map, key)
    IN  IF entry = 0 THEN 0 ELSE CountFrom(map, key, entry)

countSingle(key) == countMap(m_single, key)

countDouble(key) == countMap(m_double, key)

(* Options::count(opt) returns bool: the sum converted to bool, as 0 or 1 *)
count(key) == IF countSingle(key) + countDouble(key) # 0 THEN 1 ELSE 0

RECURSIVE GetWalk(_, _, _, _)
GetWalk(map, key, entry, order) ==
    IF order = 0
    THEN [found |-> TRUE, args |-> map[entry].args]
    ELSE IF entry + 1 > Len(map) \/ map[entry + 1].key # key
         THEN [found |-> FALSE, args |-> <<>>]
         ELSE GetWalk(map, key, entry + 1, order - 1)

(* Variant: the order is ignored, the first occurrence is always returned *)
get_IgnoreOrder(map, key, order) ==
    LET entry == MapFind(map, key)
    IN  IF entry = 0
        THEN [found |-> FALSE, args |-> <<>>]
        ELSE [found |-> TRUE, args |-> map[entry].args]

(* Options::get(map, opt, args, order) *)
get(map, key, order) ==
    LET entry == MapFind(map, key)
    IN  IF entry = 0
        THEN [found |-> FALSE, args |-> <<>>]
        ELSE GetWalk(map, key, entry, order)

getDouble(key, order) == get(m_double, key, order)

(* Options::strings(map, list) *)
strings(map) == [k \in 1..Len(map) |-> map[k].key]

stringsSingle == strings(m_single)

stringsDouble == strings(m_double)

(* Options::exists(opt) *)
exists(key) == countSingle(key) > 0 \/ countDouble(key) > 0

(* Variant: no test of the third character, "---x" starts an option *)
TokenBranch_NoThirdDash(arg) ==
    IF arg = <<>> \/ arg[1] # "-" \/ Len(arg) = 1 THEN "addArg"
    ELSE IF arg[2] # "-" THEN "singleDash"
    ELSE IF Len(arg) = 2 THEN "reset"
    ELSE "doubleDash"

(* The branch of the constructor's if-chain taken for one token *)
TokenBranch(arg) ==
    IF arg = <<>> \/ arg[1] # "-" \/ Len(arg) = 1 THEN "addArg"
    ELSE IF arg[2] # "-" THEN "singleDash"
    ELSE IF Len(arg) = 2 THEN "reset"
    ELSE IF arg[3] # "-" THEN "doubleDash"
    ELSE "addArg"

(* ------------------------------------------------------------------ *)
(* class NutConfOptions: validation of the stored options             *)
(*                                                                    *)
(* An error message is [text, str]: the literal text, with % where    *)
(* the code concatenates a std::string, and that string.              *)
(* ------------------------------------------------------------------ *)
Err(text, str) == [text |-> text, str |-> str]

(* NutConfOptions::optMode(opt, args, order) *)
optMode(key, order) ==
    LET r == getDouble(key, order)
    IN  IF ~r.found THEN [mode |-> "NOT_SPECIFIED", args |-> r.args]
        ELSE IF r.args = <<>> THEN [mode |-> "GETTER", args |-> r.args]
        ELSE [mode |-> "SETTER", args |-> r.args]

(* NutConfOptions::checkMode *)
checkMode(mode) ==
    mode \in {s_standalone, s_netserver, s_netclient,
              s_controlled, s_manual, s_none}

(* NutConfOptions::getMode *)
getMode ==
    LET r == optMode(s_mode, 0)
    IN  IF r.mode # "SETTER" THEN <<>> ELSE Head(r.args)

(* NutConfOptions::getMonitor(..., which) *)
getMonitor(which) ==
    IF which >= Len(options.monitors) \div 6
    THEN [thrown |-> "range_error"]
    ELSE LET base_idx == 6 * which
         IN  [thrown    |-> "",
              ups       |-> options.monitors[base_idx + 1],
              host_port |-> options.monitors[base_idx + 2],
              pwr_val   |-> options.monitors[base_idx + 3],
              user      |-> options.monitors[base_idx + 4],
              passwd    |-> options.monitors[base_idx + 5],
              mode      |-> options.monitors[base_idx + 6]]

(* The state the validation loop works on: the public members and m_errors *)
(* --autoconfigure, --is-configured, --system *)
FlagOption(st, field, text) ==
    IF st.o[field]
    THEN [st EXCEPT !.e = Append(@, Err(text, <<>>))]
    ELSE [st EXCEPT !.o[field] = TRUE]

(* --local *)
LocalOption(st) ==
    LET r == optMode(s_local, 0)
    IN  IF st.o.local # <<>>
        THEN [st EXCEPT !.e = Append(@, Err("--local option specified more than once", <<>>))]
        ELSE IF r.mode # "SETTER"
        THEN [st EXCEPT !.e = Append(@, Err("--local option requires an argument", <<>>))]
        ELSE IF Len(r.args) > 1
        THEN [st EXCEPT !.e = Append(@, Err("Only one directory may be specified with the --local option", <<>>))]
        ELSE [st EXCEPT !.o.local = Head(r.args)]

(* --mode *)
ModeOption(st) ==
    LET r == optMode(s_mode, 0)
    IN  IF st.o.mode # <<>>
        THEN [st EXCEPT !.e = Append(@, Err("--mode option specified more than once", <<>>))]
        ELSE IF r.mode # "SETTER"
        THEN [st EXCEPT !.e = Append(@, Err("--mode option requires an argument", <<>>))]
        ELSE IF Len(r.args) > 1
        THEN [st EXCEPT !.e = Append(@, Err("Only one argument allowed for the --mode option", <<>>))]
        ELSE IF Len(r.args) = 1 /\ ~checkMode(Head(r.args))
        THEN [st EXCEPT !.e = Append(@, Err("Unknown NUT mode: %", Head(r.args)))]
        ELSE [st EXCEPT !.o.mode = Head(r.args)]

(* The counter cnt points to: set_X_cnt if the name starts with 's', else add_X_cnt *)
CntField(name, family) ==
    IF name[1] = "s" THEN "set_" \o family \o "_cnt" ELSE "add_" \o family \o "_cnt"

(* Variant: the counter is not incremented *)
IncCnt_Missing(st, cnt) == st

(* The increment of the counter cnt points to *)
IncCnt(st, cnt) == [st EXCEPT !.o[cnt] = @ + 1]

(* --set-monitor, --add-monitor *)
MonitorOption(st, name) ==
    LET cnt == CntField(name, "monitor")
        r == optMode(name, st.o[cnt])
        st1 == IF r.mode # "SETTER"
               THEN [st EXCEPT !.e = Append(@, Err("--% option requires arguments", name))]
               ELSE IF Len(r.args) # 6
               THEN [st EXCEPT !.e = Append(@, Err("--% option requires exactly 6 arguments", name))]
               ELSE [st EXCEPT !.o.monitors = @ \o r.args]
    IN  IncCnt(st1, cnt)

(* --set-listen, --add-listen *)
ListenOption(st, name) ==
    LET cnt == CntField(name, "listen")
        r == optMode(name, st.o[cnt])
        st1 == IF r.mode # "SETTER"
               THEN [st EXCEPT !.e = Append(@, Err("--% option requires arguments", name))]
               ELSE IF Len(r.args) < 1 \/ Len(r.args) > 2
               THEN [st EXCEPT !.e = Append(@, Err("--% option requires 1 or 2 arguments", name))]
               ELSE LET addr_port == <<Head(r.args),
                                       IF Len(r.args) > 1 THEN r.args[Len(r.args)] ELSE <<>> >>
                    IN  [st EXCEPT !.o.listen_addrs = Append(@, addr_port)]
    IN  IncCnt(st1, cnt)

(* --set-device, --add-device *)
DeviceOption(st, name) ==
    LET cnt == CntField(name, "device")
        r == optMode(name, st.o[cnt])
        st1 == IF r.mode # "SETTER"
               THEN [st EXCEPT !.e = Append(@, Err("--% option requires arguments", name))]
               ELSE IF Len(r.args) < 3
               THEN [st EXCEPT !.e = Append(@, Err("--% option requires at least 3 arguments", name))]
               ELSE IF Len(r.args) > 4
               THEN [st EXCEPT !.e = Append(Append(@,
                        Err("--% option takes at most 4 arguments", name)),
                        Err("    (perhaps you need to quote description?)", <<>>))]
               ELSE LET dev == [id     |-> r.args[1],
                                driver |-> r.args[2],
                                port   |-> r.args[3],
                                desc   |-> IF Len(r.args) > 3 THEN r.args[4] ELSE <<>>]
                    IN  [st EXCEPT !.o.devices = Append(@, dev)]
    IN  IncCnt(st1, cnt)

(* One iteration of the loop over the double-dashed options *)
SpecifyOption(st, name) ==
    IF name = s_autoconfigure
    THEN FlagOption(st, "autoconfigure", "--autoconfigure option specified more than once")
    ELSE IF name = s_is_configured
    THEN FlagOption(st, "is_configured", "--is-configured option specified more than once")
    ELSE IF name = s_local THEN LocalOption(st)
    ELSE IF name = s_system
    THEN FlagOption(st, "system", "--system option specified more than once")
    ELSE IF name = s_mode THEN ModeOption(st)
    ELSE IF name = s_set_monitor \/ name = s_add_monitor THEN MonitorOption(st, name)
    ELSE IF name = s_set_listen \/ name = s_add_listen THEN ListenOption(st, name)
    ELSE IF name = s_set_device \/ name = s_add_device THEN DeviceOption(st, name)
    ELSE [st EXCEPT !.u = Append(@, dDash \o name)]

(* Variant: the direct arguments of the binary are not looked at *)
AllKnown_IgnoreArgs(unknown, errors, args) ==
    unknown = <<>> /\ errors = <<>>

(* valid = m_unknown.empty() && m_errors.empty() && get().empty() *)
AllKnown(unknown, errors, args) ==
    unknown = <<>> /\ errors = <<>> /\ args = <<>>

(* Variant: a single add-* occurrence is tolerated *)
BothSpecified_OffByOne(set_cnt, add_cnt) == set_cnt > 0 /\ add_cnt > 1

(* if (set_X_cnt > 0 && add_X_cnt > 0) *)
BothSpecified(set_cnt, add_cnt) == set_cnt > 0 /\ add_cnt > 0

(* One of the three mutual exclusion checks *)
Exclusive(st, family, text) ==
    IF BothSpecified(st.o["set_" \o family \o "_cnt"], st.o["add_" \o family \o "_cnt"])
    THEN [st EXCEPT !.e = Append(@, Err(text, <<>>)), !.o.valid = FALSE]
    ELSE st

(* ------------------------------------------------------------------ *)
(* The command lines explored                                         *)
(* ------------------------------------------------------------------ *)
Arg(c) == <<c>>

(* Token by token: every sequence of at most MaxArgc of these tokens *)
FreeTokens ==
    { <<>>, sDash, dDash, <<"-", "x">>, <<"-", "-", "x">>,
      <<"-", "-", "-", "x">>, Arg("a"), dDash \o s_local }

(* Option by option: an option name followed by its arguments *)
Opt(name, args) == <<dDash \o name>> \o args

Chunks ==
    { Opt(s_autoconfigure, <<>>), Opt(s_autoconfigure, <<Arg("a")>>),
      Opt(s_is_configured, <<>>), Opt(s_is_configured, <<Arg("a")>>),
      Opt(s_system, <<>>), Opt(s_system, <<Arg("a")>>),
      Opt(s_local, <<Arg("a")>>), Opt(s_local, << <<>> >>),
      Opt(s_local, <<>>), Opt(s_local, <<Arg("a"), Arg("b")>>),
      Opt(s_mode, <<s_standalone>>), Opt(s_mode, <<Arg("x")>>),
      Opt(s_mode, << <<>> >>),
      Opt(s_set_monitor, <<Arg("a"), <<"b", ":", "7">>, Arg("1"), Arg("d"), Arg("e"), s_master>>),
      Opt(s_set_monitor, <<Arg("g"), Arg("h"), Arg("i"), Arg("j"), Arg("k"), Arg("l")>>),
      Opt(s_set_monitor, <<Arg("a"), Arg("b"), Arg("c")>>),
      Opt(s_set_monitor, <<>>),
      Opt(s_add_monitor, <<Arg("f"), Arg("e"), Arg("2"), Arg("c"), Arg("b"), Arg("a")>>),
      Opt(s_add_monitor, <<Arg("a")>>),
      Opt(s_set_listen, <<Arg("a")>>), Opt(s_set_listen, <<Arg("a"), Arg("b")>>),
      Opt(s_set_listen, <<>>), Opt(s_set_listen, <<Arg("a"), Arg("b"), Arg("c")>>),
      Opt(s_add_listen, <<Arg("b"), Arg("8")>>),
      Opt(s_set_device, <<Arg("a"), Arg("b"), Arg("c")>>),
      Opt(s_set_device, <<Arg("d"), Arg("e"), Arg("f"), Arg("g")>>),
      Opt(s_set_device, <<Arg("a"), Arg("b")>>),
      Opt(s_set_device, <<Arg("a"), Arg("b"), Arg("c"), Arg("d"), Arg("e")>>),
      Opt(s_add_device, <<Arg("a"), Arg("b"), Arg("c")>>),
      Opt(s_add_device, <<Arg("c"), Arg("d"), Arg("e"), Arg("f")>>),
      << <<"-", "x">> >>, Opt(s_help, <<>>), <<dDash, Arg("a")>> }

SeqsUpTo(S, n) == UNION {[1..k -> S] : k \in 0..n}

RECURSIVE Flatten(_)
Flatten(ss) == IF ss = <<>> THEN <<>> ELSE Head(ss) \o Flatten(Tail(ss))

CommandLines ==
    SeqsUpTo(FreeTokens, MaxArgc) \cup {Flatten(cs) : cs \in SeqsUpTo(Chunks, MaxChunks)}

(* ------------------------------------------------------------------ *)
(* Options::Options and NutConfOptions::NutConfOptions                *)
(* ------------------------------------------------------------------ *)
Init ==
    /\ argv \in CommandLines
    /\ pc = "Options"
    /\ i = 1
    /\ m_last = NULL
    /\ m_args = <<>>
    /\ m_args_pos = <<>>
    /\ m_single = <<>>
    /\ m_double = <<>>
    /\ list = <<>>
    /\ opt = 1
    /\ m_unknown = <<>>
    /\ m_errors = <<>>
    /\ exit_code = NotExited
    /\ io = <<>>
    /\ options = [valid |-> TRUE, autoconfigure |-> FALSE, is_configured |-> FALSE,
                  local |-> <<>>, system |-> FALSE, mode |-> <<>>,
                  monitors |-> <<>>, set_monitor_cnt |-> 0, add_monitor_cnt |-> 0,
                  listen_addrs |-> <<>>, set_listen_cnt |-> 0, add_listen_cnt |-> 0,
                  devices |-> <<>>, set_device_cnt |-> 0, add_device_cnt |-> 0]

(* Options::addArg: arg is argv[at] *)
addArg(arg, at) ==
    /\ IF m_last # NULL
       THEN /\ m_single' = PushArg(m_single, m_last, arg, at)
            /\ m_double' = PushArg(m_double, m_last, arg, at)
            /\ UNCHANGED <<m_args, m_args_pos>>
       ELSE /\ m_args' = Append(m_args, arg)
            /\ m_args_pos' = Append(m_args_pos, at)
            /\ UNCHANGED <<m_single, m_double>>
    /\ UNCHANGED m_last

(* Options::add: the new node is identified by at, the index of its token *)
add(type, key, at) ==
    /\ IF type = "singleDash"
       THEN m_single' = MapInsert(m_single, key, at) /\ UNCHANGED m_double
       ELSE m_double' = MapInsert(m_double, key, at) /\ UNCHANGED m_single
    /\ m_last' = at
    /\ UNCHANGED <<m_args, m_args_pos>>

(* Variant: "--" is skipped and m_last is kept *)
resetLast_Keep ==
    UNCHANGED <<m_last, m_args, m_args_pos, m_single, m_double>>

(* "--" alone: m_last = NULL *)
resetLast ==
    /\ m_last' = NULL
    /\ UNCHANGED <<m_args, m_args_pos, m_single, m_double>>

(* One iteration of the loop of Options::Options *)
OptionsToken ==
    /\ pc = "Options"
    /\ i <= Len(argv)
    /\ LET arg == argv[i]
           branch == TokenBranch(arg)
       IN  CASE branch = "addArg" -> addArg(arg, i)
             [] branch = "singleDash" -> add("singleDash", substr(arg, 1), i)
             [] branch = "reset" -> resetLast
             [] branch = "doubleDash" -> add("doubleDash", substr(arg, 2), i)
    /\ i' = i + 1
    /\ UNCHANGED <<argv, pc, list, opt, m_unknown, m_errors, options, mainVars>>

(* End of Options::Options; the loop over the single-dashed options, *)
(* which are all unknown; list = stringsDouble()                     *)
SingleDashed ==
    /\ pc = "Options"
    /\ i > Len(argv)
    /\ m_unknown' = [k \in 1..Len(stringsSingle) |-> sDash \o stringsSingle[k]]
    /\ list' = stringsDouble
    /\ opt' = 1
    /\ pc' = "double"
    /\ UNCHANGED <<argv, i, m_last, m_args, m_args_pos, m_single, m_double,
                   m_errors, options, mainVars>>

(* One iteration of the loop over the double-dashed options *)
DoubleDashed ==
    /\ pc = "double"
    /\ opt <= Len(list)
    /\ LET st == SpecifyOption([o |-> options, e |-> m_errors, u |-> m_unknown], list[opt])
       IN  /\ options' = st.o
           /\ m_errors' = st.e
           /\ m_unknown' = st.u
    /\ opt' = opt + 1
    /\ UNCHANGED <<argv, pc, i, m_last, m_args, m_args_pos, m_single, m_double, list,
                   mainVars>>

(* After the loop: valid, then the three mutual exclusion checks *)
Validate ==
    /\ pc = "double"
    /\ opt > Len(list)
    /\ LET st0 == [o |-> [options EXCEPT !.valid = AllKnown(m_unknown, m_errors, m_args)],
                   e |-> m_errors, u |-> m_unknown]
           st1 == Exclusive(st0, "monitor",
                      "--set-monitor and --add-monitor options can't both be specified")
           st2 == Exclusive(st1, "listen",
                      "--set-listen and --add-listen options can't both be specified")
           st3 == Exclusive(st2, "device",
                      "--set-device and --add-device options can't both be specified")
       IN  /\ options' = st3.o
           /\ m_errors' = st3.e
    /\ pc' = "constructed"
    /\ UNCHANGED <<argv, i, m_last, m_args, m_args_pos, m_single, m_double,
                   list, opt, m_unknown, mainVars>>

(* ------------------------------------------------------------------ *)
(* Record materialisation: monitor() and listenAddr()                 *)
(* ------------------------------------------------------------------ *)
Digits == {"0", "1", "2", "3", "4", "5", "6", "7", "8", "9"}

DigitValue(c) == CharRank(c) - CharRank("0")

RECURSIVE DecimalValue(_, _)
DecimalValue(str, n) ==
    IF n = 0 THEN 0 ELSE 10 * DecimalValue(str, n - 1) + DigitValue(str[n])

(* The largest values of unsigned short and unsigned int, in decimal *)
UShortMax == <<"6", "5", "5", "3", "5">>

UIntMax == <<"4", "2", "9", "4", "9", "6", "7", "2", "9", "5">>

RECURSIVE StripZeros(_)
StripZeros(digits) ==
    IF Len(digits) > 1 /\ Head(digits) = "0" THEN StripZeros(Tail(digits)) ELSE digits

(* The decimal number digits is larger than max *)
Exceeds(digits, max) ==
    LET d == StripZeros(digits)
    IN  Len(d) > Len(max) \/ (Len(d) = Len(max) /\ StrLess(max, d))

(* std::stringstream ss(str); (ss >> value).fail() for an unsigned type  *)
(* with the given largest value: the leading digits are converted, what  *)
(* follows them is left unread; no digit at all, or a number the type    *)
(* cannot hold, fails.  The strings explored carry no sign and no white  *)
(* space.                                                                *)
ExtractUnsigned(str, max) ==
    LET n == Cardinality({k \in 1..Len(str) : \A j \in 1..k : str[j] \in Digits})
    IN  IF n = 0 THEN [fail |-> TRUE, value |-> 0]
        ELSE IF Exceeds(SubSeq(str, 1, n), max) THEN [fail |-> TRUE, value |-> 0]
        ELSE [fail |-> FALSE, value |-> DecimalValue(str, n)]

npos == -1

(* std::string::rfind(':'): 0-based index of the last colon, npos if none *)
rfind_colon(str) ==
    LET at == {k \in 1..Len(str) : str[k] = ":"}
    IN  IF at = {} THEN npos ELSE (CHOOSE k \in at : \A j \in at : j <= k) - 1

(* monitor(i, options): exits is the status of the ::exit call taken, *)
(* NotExited if the record is returned; thrown a leaked exception     *)
monitor(n) ==
    LET m == getMonitor(n)
    IN  IF m.thrown # ""
        THEN [exits |-> NotExited, thrown |-> m.thrown]
        ELSE
        LET colon_idx == rfind_colon(m.host_port)
            port == IF colon_idx # npos
                    THEN ExtractUnsigned(substr(m.host_port, colon_idx + 1), UShortMax)
                    ELSE [fail |-> FALSE, value |-> 0]
            power_value == ExtractUnsigned(m.pwr_val, UIntMax)
        IN  IF port.fail THEN [exits |-> 1, thrown |-> ""]
            ELSE IF power_value.fail THEN [exits |-> 1, thrown |-> ""]
            ELSE [exits |-> NotExited, thrown |-> "",
                  monitor |-> [upsname    |-> m.ups,
                               hostname   |-> IF colon_idx = npos THEN m.host_port
                                              ELSE SubSeq(m.host_port, 1, colon_idx),
                               port       |-> port.value,
                               powerValue |-> power_value.value,
                               username   |-> m.user,
                               password   |-> m.passwd,
                               isMaster   |-> m.mode = s_master]]

(* listenAddr(i, options); an unset port is [set |-> FALSE] *)
listenAddr(n) ==
    LET addr_spec == options.listen_addrs[n + 1]
        port == ExtractUnsigned(addr_spec[2], UShortMax)
    IN  IF addr_spec[2] = <<>>
        THEN [exits |-> NotExited,
              listen |-> [address |-> addr_spec[1], port |-> [set |-> FALSE, value |-> 0]]]
        ELSE IF port.fail THEN [exits |-> 1]
        ELSE [exits |-> NotExited,
              listen |-> [address |-> addr_spec[1],
                          port |-> [set |-> TRUE, value |-> port.value]]]

(* ------------------------------------------------------------------ *)
(* The configuration files.  A file as found on disk is [state, conf]: *)
(* state is "absent", "unparsable" or "parsed", conf what parseFrom    *)
(* yields.  upsmon.conf holds the monitor list, upsd.conf the listen   *)
(* address list, ups.conf the sections: a function from the section    *)
(* name (<<>> is the global section) to the entries of the section.    *)
(* ------------------------------------------------------------------ *)
CONFPATH == <<"/", "e", "t", "c", "/", "n", "u", "t">>

s_nut_conf == <<"/", "n", "u", "t", ".", "c", "o", "n", "f">>

s_upsmon_conf == <<"/", "u", "p", "s", "m", "o", "n", ".", "c", "o", "n", "f">>

s_upsd_conf == <<"/", "u", "p", "s", "d", ".", "c", "o", "n", "f">>

s_ups_conf == <<"/", "u", "p", "s", ".", "c", "o", "n", "f">>

File(state, conf) == [state |-> state, conf |-> conf]

(* The default constructed configuration objects *)
UpsmonConfiguration == [monitors |-> <<>>]

UpsdConfiguration == [listens |-> <<>>]

UpsConfiguration == [sections |-> <<>>]

ExistingMonitor(name, master) ==
    [upsname |-> Arg(name), hostname |-> Arg("h"), port |-> 0, powerValue |-> 1,
     username |-> Arg("u"), password |-> Arg("p"), isMaster |-> master]

ExistingListen(addr) ==
    [address |-> Arg(addr), port |-> [set |-> FALSE, value |-> 0]]

UpsmonFiles ==
    { File("absent", UpsmonConfiguration), File("unparsable", UpsmonConfiguration),
      File("parsed", [monitors |-> <<ExistingMonitor("x", TRUE)>>]),
      File("parsed", [monitors |-> <<ExistingMonitor("y", FALSE), ExistingMonitor("x", TRUE)>>]) }

UpsdFiles ==
    { File("absent", UpsdConfiguration), File("unparsable", UpsdConfiguration),
      File("parsed", [listens |-> <<ExistingListen("x")>>]),
      File("parsed", [listens |-> <<ExistingListen("y"), ExistingListen("x")>>]) }

GlobalSection == ("maxretry" :> Arg("3"))

UpsFiles ==
    { File("absent", UpsConfiguration), File("unparsable", UpsConfiguration),
      File("parsed", [sections |-> (<<>> :> GlobalSection)]),
      File("parsed", [sections |->
          (<<>> :> GlobalSection)
          @@ (Arg("a") :> ("driver" :> Arg("x") @@ "port" :> Arg("y") @@ "desc" :> Arg("z")))
          @@ (Arg("b") :> ("driver" :> Arg("x") @@ "port" :> Arg("y")))]) }

(* nut.conf as isConfigured finds it: absent, or the MODE it holds *)
NutConfFiles == {"absent", "MODE_UNKNOWN", "MODE_NONE", "MODE_STANDALONE", "MODE_NETSERVER"}

(* std::string etc(CONFPATH); if (!options.local.empty()) etc = options.local *)
etc == IF options.local # <<>> THEN options.local ELSE CONFPATH

(* Variant: MODE_NONE counts as configured *)
isConfigured_ModeNone(nut_conf) ==
    IF nut_conf = "absent" THEN FALSE
    ELSE nut_conf # "MODE_UNKNOWN"

(* isConfigured(etc), nut_conf being the nut.conf found *)
isConfigured(nut_conf) ==
    IF nut_conf = "absent" THEN FALSE
    ELSE nut_conf # "MODE_UNKNOWN" /\ nut_conf # "MODE_NONE"

(* source(config, file_name), file being what the name designates *)
source(config, file) ==
    IF file.state = "absent" THEN [exits |-> NotExited, ret |-> FALSE, config |-> config]
    ELSE IF file.state = "parsed" THEN [exits |-> NotExited, ret |-> TRUE, config |-> file.conf]
    ELSE [exits |-> 1, ret |-> FALSE, config |-> config]

(* Variant: a failed write is not looked at *)
store_Unchecked(written_ok) == NotExited

(* store(config, file_name), written_ok being the result of writeTo *)
store(written_ok) == IF written_ok THEN NotExited ELSE 1

(* A file operation: op is "exists", "isConfigured", "source" or "store" *)
Event(op, file, state, conf) == [op |-> op, file |-> file, state |-> state, conf |-> conf]

(* ------------------------------------------------------------------ *)
(* The merges                                                         *)
(* ------------------------------------------------------------------ *)
(* Variant: the existing entries are removed when they are to be kept *)
MergeList_Inverted(existing, new, keep_ex) ==
    (IF keep_ex THEN <<>> ELSE existing) \o new

(* setMonitors, setListenAddrs: clear() unless keep_ex, then push_back of *)
(* every new entry                                                        *)
MergeList(existing, new, keep_ex) ==
    (IF ~keep_ex THEN <<>> ELSE existing) \o new

(* sections[id][key] = value: the section and the entry are created if *)
(* they do not exist, the entry is overwritten if it does              *)
setEntry(sections, id, key, value) ==
    LET entries == IF id \in DOMAIN sections THEN sections[id] ELSE <<>>
    IN  (id :> ((key :> value) @@ entries)) @@ sections

setDriver(sections, id, driver) == setEntry(sections, id, "driver", driver)

setPort(sections, id, port) == setEntry(sections, id, "port", port)

setDescription(sections, id, desc) == setEntry(sections, id, "desc", desc)

(* Variant: the port is set only if the section existed before *)
SetDevice_PortIfExisting(sections, dev) ==
    LET s1 == setDriver(sections, dev.id, dev.driver)
        s2 == IF dev.id \in DOMAIN sections THEN setPort(s1, dev.id, dev.port) ELSE s1
    IN  IF dev.desc # <<>> THEN setDescription(s2, dev.id, dev.desc) ELSE s2

(* One iteration of the loop over the devices of setDevices *)
SetDevice(sections, dev) ==
    LET s1 == setDriver(sections, dev.id, dev.driver)
        s2 == setPort(s1, dev.id, dev.port)
    IN  IF dev.desc # <<>> THEN setDescription(s2, dev.id, dev.desc) ELSE s2

RECURSIVE SetDevicesLoop(_, _)
SetDevicesLoop(sections, devices) ==
    IF devices = <<>> THEN sections
    ELSE SetDevicesLoop(SetDevice(sections, Head(devices)), Tail(devices))

Restrict(f, S) == [x \in S |-> f[x]]

(* The loop that removes the existing devices.  Its iterator is        *)
(* incremented after sections.erase(ups) has invalidated it, which is  *)
(* undefined as soon as one named section is erased: the first named   *)
(* section is erased, after that the walk may visit every section,     *)
(* miss any of them, or read freed memory and end the process.         *)
(* Without a named section nothing is erased and the loop is defined.  *)
RemoveDevices(sections) ==
    LET named == {id \in DOMAIN sections : id # <<>>}
        first == CHOOSE id \in named : \A other \in named : ~StrLess(other, id)
    IN  IF named = {} THEN {[crash |-> FALSE, sections |-> sections]}
        ELSE {[crash |-> TRUE, sections |-> sections]}
             \cup {[crash |-> FALSE,
                    sections |-> Restrict(sections, (DOMAIN sections \ named) \cup keep)] :
                   keep \in SUBSET (named \ {first})}

(* The status of a process ended by SIGSEGV, as a shell reports it *)
Crashed == 139

(* setDevices between source and store: the configurations it can reach *)
MergeDevices(config, devices, keep_ex) ==
    LET removed == IF ~keep_ex THEN RemoveDevices(config.sections)
                   ELSE {[crash |-> FALSE, sections |-> config.sections]}
    IN  {[crash |-> r.crash, config |-> [sections |-> SetDevicesLoop(r.sections, devices)]] :
         r \in removed}

(* ------------------------------------------------------------------ *)
(* mainx and main                                                     *)
(* ------------------------------------------------------------------ *)
(* ::exit(code), and the return of main *)
Exit(code) ==
    /\ pc' = "exit"
    /\ exit_code' = code

(* The end of a step of mainx that goes on at next; "exit" is return 0 *)
Continue(next) ==
    /\ pc' = next
    /\ exit_code' = IF next = "exit" THEN 0 ELSE exit_code

(* The configurations the change of a sourced configuration c can end with *)
Merged(family, c, records, keep_ex) ==
    CASE family = "monitors" ->
            {[crash |-> FALSE,
              config |-> [c EXCEPT !.monitors = MergeList(@, records, keep_ex)]]}
      [] family = "listen" ->
            {[crash |-> FALSE,
              config |-> [c EXCEPT !.listens = MergeList(@, records, keep_ex)]]}
      [] family = "devices" -> MergeDevices(c, records, keep_ex)

(* The common shape of setMonitors, setListenAddrs and setDevices: source  *)
(* the file (one of files), change the configuration, store it             *)
Configure(name, files, config, family, records, keep_ex, next) ==
    \E file \in files :
        LET sourced == source(config, file)
            read == Event("source", name, file.state, file.conf)
        IN  IF sourced.exits # NotExited
            THEN io' = Append(io, read) /\ Exit(sourced.exits)
            ELSE \E m \in Merged(family, sourced.config, records, keep_ex) :
                    IF m.crash
                    THEN io' = Append(io, read) /\ Exit(Crashed)
                    ELSE \E written_ok \in BOOLEAN :
                            /\ io' = io \o <<read,
                                   Event("store", name,
                                         IF written_ok THEN "written" ELSE "failed", m.config)>>
                            /\ IF store(written_ok) # NotExited
                               THEN Exit(store(written_ok))
                               ELSE Continue(next)

setMonitors(monitors, keep_ex, next) ==
    Configure(etc \o s_upsmon_conf, UpsmonFiles, UpsmonConfiguration,
              "monitors", monitors, keep_ex, next)

setListenAddrs(listen_addrs, keep_ex, next) ==
    Configure(etc \o s_upsd_conf, UpsdFiles, UpsdConfiguration,
              "listen", listen_addrs, keep_ex, next)

setDevices(devices, keep_ex, next) ==
    Configure(etc \o s_ups_conf, UpsFiles, UpsConfiguration,
              "devices", devices, keep_ex, next)

(* mainx up to the --is-configured query: help, validity, the directory *)
Main ==
    /\ pc = "constructed"
    /\ IF exists(s_help) THEN Exit(0) /\ UNCHANGED io
       ELSE IF ~options.valid THEN Exit(1) /\ UNCHANGED io
       ELSE \E etc_dir_exists \in BOOLEAN :
            IF ~etc_dir_exists
            THEN /\ io' = Append(io, Event("exists", etc, "missing", <<>>))
                 /\ Exit(1)
            ELSE IF options.is_configured
            THEN \E nut_conf \in NutConfFiles :
                    /\ io' = io \o <<Event("exists", etc, "present", <<>>),
                                     Event("isConfigured", etc \o s_nut_conf, nut_conf, <<>>)>>
                    /\ Exit(IF isConfigured(nut_conf) THEN 0 ELSE 1)
            ELSE /\ io' = Append(io, Event("exists", etc, "present", <<>>))
                 /\ Continue("monitors")
    /\ UNCHANGED <<argv, i, m_last, m_args, m_args_pos, m_single, m_double,
                   list, opt, m_unknown, m_errors, options>>

(* Variant: a family is configured whether or not it has records *)
WereSet_Always(records) == TRUE

(* if (!options.monitors.empty()), and the same for the other families *)
WereSet(records) == records # <<>>

(* The first record that cannot be built ends the process: with ::exit(1), *)
(* or with 128 in main if an exception leaks                               *)
FirstFailure(results) ==
    LET bad == {k \in 1..Len(results) : results[k].exits # NotExited}
    IN  IF bad = {} THEN NotExited
        ELSE results[CHOOSE k \in bad : \A j \in bad : k <= j].exits

(* "Monitors were set" *)
MainMonitors ==
    /\ pc = "monitors"
    /\ IF ~WereSet(options.monitors)
       THEN Continue("listen") /\ UNCHANGED io
       ELSE LET n == Len(options.monitors) \div 6
                built == [k \in 1..n |->
                            LET m == monitor(k - 1)
                            IN  IF m.thrown # "" THEN [exits |-> 128] ELSE m]
            IN  IF FirstFailure(built) # NotExited
                THEN Exit(FirstFailure(built)) /\ UNCHANGED io
                ELSE setMonitors([k \in 1..n |-> built[k].monitor],
                                 options.add_monitor_cnt > 0, "listen")
    /\ UNCHANGED <<argv, i, m_last, m_args, m_args_pos, m_single, m_double,
                   list, opt, m_unknown, m_errors, options>>

(* "Listen addresses were set" *)
MainListen ==
    /\ pc = "listen"
    /\ IF ~WereSet(options.listen_addrs)
       THEN Continue("devices") /\ UNCHANGED io
       ELSE LET built == [k \in 1..Len(options.listen_addrs) |-> listenAddr(k - 1)]
            IN  IF FirstFailure(built) # NotExited
                THEN Exit(FirstFailure(built)) /\ UNCHANGED io
                ELSE setListenAddrs([k \in 1..Len(built) |-> built[k].listen],
                                    options.add_listen_cnt > 0, "devices")
    /\ UNCHANGED <<argv, i, m_last, m_args, m_args_pos, m_single, m_double,
                   list, opt, m_unknown, m_errors, options>>

(* "Devices were set", and return 0 *)
MainDevices ==
    /\ pc = "devices"
    /\ IF ~WereSet(options.devices)
       THEN Continue("exit") /\ UNCHANGED io
       ELSE setDevices(options.devices, options.add_device_cnt > 0, "exit")
    /\ UNCHANGED <<argv, i, m_last, m_args, m_args_pos, m_single, m_double,
                   list, opt, m_unknown, m_errors, options>>

Next ==
    \/ OptionsToken \/ SingleDashed \/ DoubleDashed \/ Validate
    \/ Main \/ MainMonitors \/ MainListen \/ MainDevices

Spec == Init /\ [][Next]_vars

(* ------------------------------------------------------------------ *)
(* Vocabulary of the properties, stated on the command line itself    *)
(* ------------------------------------------------------------------ *)
constructed == pc = "constructed"

LeadingDashes(tok) ==
    Cardinality({k \in 1..Len(tok) : \A j \in 1..k : tok[j] = "-"})

(* -x or --name: the token starts an occurrence *)
IsOptionToken(tok) ==
    \/ LeadingDashes(tok) = 1 /\ Len(tok) > 1
    \/ LeadingDashes(tok) = 2 /\ Len(tok) > 2

(* the empty string, a lone "-", three or more leading dashes *)
IsLiteralToken(tok) == tok = <<>> \/ tok = sDash \/ LeadingDashes(tok) >= 3

(* neither an option nor "--": a token that has to be stored as an argument *)
IsArgumentToken(tok) == ~IsOptionToken(tok) /\ tok # dDash

(* argv positions of the occurrences of the double-dashed option name *)
Occurrences(name) == {j \in 1..Len(argv) : argv[j] = dDash \o name}

(* The occurrence a token at position j belongs to: the position of the   *)
(* nearest option token before j, NULL if there is none or if a "--"      *)
(* stands between                                                         *)
CurrentOccurrence(j) ==
    LET before == {k \in 1..(j - 1) : IsOptionToken(argv[k]) \/ argv[k] = dDash}
    IN  IF before = {} THEN NULL
        ELSE LET k == CHOOSE m \in before : \A n \in before : n <= m
             IN  IF argv[k] = dDash THEN NULL ELSE k

(* The argument tokens of the occurrence that starts at position p *)
ArgumentsOf(p) ==
    LET stop == {k \in (p + 1)..Len(argv) : ~IsArgumentToken(argv[k])}
        last == IF stop = {} THEN Len(argv)
                ELSE (CHOOSE m \in stop : \A n \in stop : m <= n) - 1
    IN  SubSeq(argv, p + 1, last)

Entries == {m_single[k] : k \in 1..Len(m_single)} \cup {m_double[k] : k \in 1..Len(m_double)}

Families == {"monitor", "listen", "device"}

SetName(family) ==
    CASE family = "monitor" -> s_set_monitor
      [] family = "listen" -> s_set_listen
      [] family = "device" -> s_set_device

AddName(family) ==
    CASE family = "monitor" -> s_add_monitor
      [] family = "listen" -> s_add_listen
      [] family = "device" -> s_add_device

ExclusionError(family) ==
    CASE family = "monitor" ->
            Err("--set-monitor and --add-monitor options can't both be specified", <<>>)
      [] family = "listen" ->
            Err("--set-listen and --add-listen options can't both be specified", <<>>)
      [] family = "device" ->
            Err("--set-device and --add-device options can't both be specified", <<>>)

ErrorSet == {m_errors[k] : k \in 1..Len(m_errors)}

(* ------------------------------------------------------------------ *)
(* C1: after construction, valid is true iff no unknown option was    *)
(* collected, the error list is empty, there is no top-level argument *)
(* and no family has both its set-* and its add-* counter above 0.    *)
(* ------------------------------------------------------------------ *)
C1_ValidIff ==
    constructed =>
        /\ options.valid <=>
              /\ m_unknown = <<>>
              /\ m_errors = <<>>
              /\ m_args = <<>>
              /\ \A f \in Families :
                    ~(options["set_" \o f \o "_cnt"] > 0 /\ options["add_" \o f \o "_cnt"] > 0)
        /\ options.valid => m_errors = <<>>

C1_Witness ==
    /\ constructed
    /\ options.valid
    /\ options.set_listen_cnt > 0
    /\ options.add_device_cnt > 0

(* ------------------------------------------------------------------ *)
(* C2: a command line with at least one --set-X and at least one      *)
(* --add-X token ends with valid = false and with the mutual          *)
(* exclusion error of family X in the error list.                     *)
(* ------------------------------------------------------------------ *)
C2_MutualExclusion ==
    constructed =>
        \A f \in Families :
            (Occurrences(SetName(f)) # {} /\ Occurrences(AddName(f)) # {})
                => (~options.valid /\ ExclusionError(f) \in ErrorSet)

C2_Witness ==
    /\ constructed
    /\ Occurrences(s_set_monitor) # {}
    /\ Occurrences(s_add_monitor) # {}
    /\ ExclusionError("monitor") \in ErrorSet
    /\ Len(options.monitors) = 6

(* ------------------------------------------------------------------ *)
(* C3 (as claimed): a scalar option (autoconfigure, is-configured,    *)
(* system, local, mode) that occurs twice or more ends with an error  *)
(* in the error list and valid = false, whatever its arguments.       *)
(* ------------------------------------------------------------------ *)
ScalarNames == {s_autoconfigure, s_is_configured, s_system, s_local, s_mode}

C3_DuplicateScalar ==
    constructed =>
        \A name \in ScalarNames :
            Cardinality(Occurrences(name)) >= 2 => (m_errors # <<>> /\ ~options.valid)

(* ------------------------------------------------------------------ *)
(* C4 (as claimed): an occurrence of autoconfigure, is-configured or  *)
(* system with an argument attached ends with an error and            *)
(* valid = false.                                                     *)
(* ------------------------------------------------------------------ *)
FlagNames == {s_autoconfigure, s_is_configured, s_system}

C4_FlagTakesNoArgument ==
    constructed =>
        \A name \in FlagNames :
            (\E p \in Occurrences(name) : ArgumentsOf(p) # <<>>)
                => (m_errors # <<>> /\ ~options.valid)

(* ------------------------------------------------------------------ *)
(* C5: when --set-monitor (or --add-monitor) is the only monitor      *)
(* option used and each of its n occurrences carries exactly 6        *)
(* arguments, the monitor list holds n records and getMonitor(k)      *)
(* returns the 6 arguments of the k-th occurrence in positional       *)
(* order; the length of the monitor list is always a multiple of 6.   *)
(* ------------------------------------------------------------------ *)
Ordinal(name, p) == Cardinality({q \in Occurrences(name) : q < p})

MonitorOf(p) ==
    [thrown |-> "", ups |-> argv[p + 1], host_port |-> argv[p + 2],
     pwr_val |-> argv[p + 3], user |-> argv[p + 4], passwd |-> argv[p + 5],
     mode |-> argv[p + 6]]

C5_MonitorRecords ==
    constructed =>
        /\ Len(options.monitors) % 6 = 0
        /\ \A name \in {s_set_monitor, s_add_monitor} :
            LET other == IF name = s_set_monitor THEN s_add_monitor ELSE s_set_monitor
                occ == Occurrences(name)
            IN  (Occurrences(other) = {} /\ \A p \in occ : Len(ArgumentsOf(p)) = 6)
                    => /\ Len(options.monitors) = 6 * Cardinality(occ)
                       /\ \A p \in occ : getMonitor(Ordinal(name, p)) = MonitorOf(p)
                       /\ getMonitor(Cardinality(occ)).thrown = "range_error"

C5_Witness ==
    /\ constructed
    /\ Cardinality(Occurrences(s_set_monitor)) = 2
    /\ Len(options.monitors) = 12
    /\ getMonitor(0).ups # getMonitor(1).ups
    /\ getMonitor(1).ups = argv[9]

(* ------------------------------------------------------------------ *)
(* C6: validation is batch.  For each of the six repeatable names the *)
(* counter ends equal to the number of occurrences of the name, each  *)
(* malformed occurrence has added one error naming the option, and    *)
(* each well-formed occurrence has added exactly one record made of   *)
(* its own arguments, whatever the other occurrences look like.       *)
(* ------------------------------------------------------------------ *)
WellFormed(f, args) ==
    CASE f = "monitor" -> Len(args) = 6
      [] f = "listen" -> Len(args) \in 1..2
      [] f = "device" -> Len(args) \in 3..4

RecordOf(f, args) ==
    CASE f = "monitor" -> args
      [] f = "listen" -> <<args[1], IF Len(args) = 2 THEN args[2] ELSE <<>> >>
      [] f = "device" -> [id |-> args[1], driver |-> args[2], port |-> args[3],
                          desc |-> IF Len(args) = 4 THEN args[4] ELSE <<>>]

Records(f) ==
    CASE f = "monitor" ->
            [k \in 1..(Len(options.monitors) \div 6) |->
                SubSeq(options.monitors, 6 * k - 5, 6 * k)]
      [] f = "listen" -> options.listen_addrs
      [] f = "device" -> options.devices

C6_Batch ==
    constructed =>
        \A f \in Families :
            LET occ(name) == Occurrences(name)
                good == {p \in occ(SetName(f)) \cup occ(AddName(f)) :
                            WellFormed(f, ArgumentsOf(p))}
            IN  /\ \A name \in {SetName(f), AddName(f)} :
                    /\ options[CntField(name, f)] = Cardinality(occ(name))
                    /\ countDouble(name) = Cardinality(occ(name))
                    /\ Cardinality({k \in 1..Len(m_errors) : m_errors[k].str = name})
                         = Cardinality({p \in occ(name) : ~WellFormed(f, ArgumentsOf(p))})
                /\ Len(Records(f)) = Cardinality(good)
                /\ \A p \in good :
                    Cardinality({k \in 1..Len(Records(f)) :
                                    Records(f)[k] = RecordOf(f, ArgumentsOf(p))})
                      = Cardinality({q \in good :
                                    RecordOf(f, ArgumentsOf(q)) = RecordOf(f, ArgumentsOf(p))})

C6_Witness ==
    /\ constructed
    /\ \E p, q \in Occurrences(s_set_listen) :
          /\ p < q
          /\ ~WellFormed("listen", ArgumentsOf(p))
          /\ WellFormed("listen", ArgumentsOf(q))
    /\ Len(options.listen_addrs) = 1
    /\ options.set_listen_cnt = 2

(* ------------------------------------------------------------------ *)
(* C7: partition invariant of the option store.  Of the tokens read   *)
(* so far, every argument token is in exactly one argument list (of   *)
(* an occurrence or the top-level one), every list keeps the command  *)
(* line order, every option token has exactly one occurrence, and the *)
(* occurrences of one name are in command line order.                 *)
(* ------------------------------------------------------------------ *)
ArgLists ==
    {<<e.node, e.args, e.argpos>> : e \in Entries} \cup {<<NULL, m_args, m_args_pos>>}

C7_Partition ==
    /\ \A l \in ArgLists :
          /\ Len(l[2]) = Len(l[3])
          /\ \A k \in 1..Len(l[2]) : l[3][k] \in 1..(i - 1) /\ l[2][k] = argv[l[3][k]]
          /\ \A j, k \in 1..Len(l[3]) : j < k => l[3][j] < l[3][k]
    /\ \A j \in 1..(i - 1) :
          IsArgumentToken(argv[j]) =>
              Cardinality({<<l, k>> \in ArgLists \X (1..Len(argv)) :
                              k <= Len(l[3]) /\ l[3][k] = j}) = 1
    /\ \A j \in 1..(i - 1) :
          IsOptionToken(argv[j]) =>
              /\ Cardinality({k \in 1..Len(m_single) : m_single[k].node = j})
                   + Cardinality({k \in 1..Len(m_double) : m_double[k].node = j}) = 1
              /\ \A e \in Entries : e.node = j =>
                    argv[j] \in {sDash \o e.key, dDash \o e.key}
    /\ Cardinality(Entries) = Len(m_single) + Len(m_double)
    /\ \A e \in Entries : e.node \in 1..(i - 1) /\ IsOptionToken(argv[e.node])
    /\ \A map \in {m_single, m_double} :
          \A j, k \in 1..Len(map) :
              (j < k /\ map[j].key = map[k].key) => map[j].node < map[k].node

C7_Witness ==
    /\ constructed
    /\ m_args # <<>>
    /\ \E j, k \in 1..Len(m_double) :
          /\ j < k
          /\ m_double[j].key = m_double[k].key
          /\ m_double[j].args # <<>>
          /\ m_double[j].args # m_double[k].args

(* ------------------------------------------------------------------ *)
(* C8 (as claimed): for every name, countSingle, countDouble and the  *)
(* combined count(name) equal the number of occurrences of the name   *)
(* started so far (for count: in either map).                         *)
(* ------------------------------------------------------------------ *)
Started(prefix, name) ==
    Cardinality({j \in 1..(i - 1) : argv[j] = prefix \o name})

C8_Count ==
    \A name \in {e.key : e \in Entries} \cup {s_help} :
        /\ countSingle(name) = Started(sDash, name)
        /\ countDouble(name) = Started(dDash, name)
        /\ count(name) = Started(sDash, name) + Started(dDash, name)

(* ------------------------------------------------------------------ *)
(* C9: the step that reads a bare "--" starts no occurrence, stores   *)
(* the token nowhere, leaves every argument list unchanged and clears *)
(* the current occurrence; an argument token read after a "--" with   *)
(* no option token in between goes to the top-level arguments and     *)
(* leaves the argument lists of all options unchanged.                *)
(* ------------------------------------------------------------------ *)
Reading(tok) == pc = "Options" /\ i <= Len(argv) /\ argv[i] = tok

AfterBareDashes ==
    /\ pc = "Options"
    /\ i <= Len(argv)
    /\ IsArgumentToken(argv[i])
    /\ \E j \in 1..(i - 1) :
          /\ argv[j] = dDash
          /\ \A k \in (j + 1)..(i - 1) : ~IsOptionToken(argv[k])

C9_BareDashes ==
    [][ /\ Reading(dDash) =>
            /\ m_last' = NULL
            /\ m_single' = m_single
            /\ m_double' = m_double
            /\ m_args' = m_args
        /\ AfterBareDashes =>
            /\ m_args' = Append(m_args, argv[i])
            /\ m_single' = m_single
            /\ m_double' = m_double ]_vars

C9_Witness ==
    /\ \E j \in 1..Len(argv) :
          /\ argv[j] = dDash
          /\ \E k \in 1..(j - 1) : IsOptionToken(argv[k])
          /\ \E k \in 1..Len(m_args_pos) : m_args_pos[k] > j
    /\ \A e \in Entries : e.args = <<>>

(* ------------------------------------------------------------------ *)
(* C10: the step that reads a literal token (empty string, lone "-",  *)
(* three or more leading dashes) starts no occurrence and appends the *)
(* token unchanged to the argument list of the current occurrence,    *)
(* or to the top-level arguments when there is none.                  *)
(* ------------------------------------------------------------------ *)
Shape(map) == [k \in 1..Len(map) |-> <<map[k].key, map[k].node>>]

AppendedTo(map, node, tok) ==
    [k \in 1..Len(map) |->
        IF map[k].node = node THEN Append(map[k].args, tok) ELSE map[k].args]

C10_Literal ==
    [][ (pc = "Options" /\ i <= Len(argv) /\ IsLiteralToken(argv[i])) =>
            /\ Shape(m_single') = Shape(m_single)
            /\ Shape(m_double') = Shape(m_double)
            /\ LET cur == CurrentOccurrence(i)
               IN  /\ m_args' = IF cur = NULL THEN Append(m_args, argv[i]) ELSE m_args
                   /\ [k \in 1..Len(m_single) |-> m_single'[k].args]
                        = AppendedTo(m_single, cur, argv[i])
                   /\ [k \in 1..Len(m_double) |-> m_double'[k].args]
                        = AppendedTo(m_double, cur, argv[i])
      ]_vars

C10_Witness ==
    /\ \E e \in Entries : \E k \in 1..Len(e.args) : LeadingDashes(e.args[k]) >= 3
    /\ \E k \in 1..Len(m_args) : m_args[k] = sDash

(* ------------------------------------------------------------------ *)
(* Vocabulary of the properties of the main routine                   *)
(* ------------------------------------------------------------------ *)
exited == pc = "exit"

UpsmonConf == etc \o s_upsmon_conf

UpsdConf == etc \o s_upsd_conf

UpsConf == etc \o s_ups_conf

(* Positions in io of the store operations that wrote the file *)
Stores(file) ==
    {k \in 1..Len(io) : io[k].op = "store" /\ io[k].file = file /\ io[k].state = "written"}

(* Positions in io of the operations on the three configuration sections *)
SectionEvents == {k \in 1..Len(io) : io[k].op \in {"source", "store"}}

(* What the source operation at position k of io found: the parsed  *)
(* configuration, or the empty one if the file did not exist         *)
Found(k, empty) == IF io[k].state = "parsed" THEN io[k].conf ELSE empty

(* The records the run builds from the validated options *)
NewMonitors ==
    [k \in 1..(Len(options.monitors) \div 6) |-> monitor(k - 1).monitor]

NewListens == [k \in 1..Len(options.listen_addrs) |-> listenAddr(k - 1).listen]

(* ------------------------------------------------------------------ *)
(* C11: list-replace merge.  The monitor list stored in upsmon.conf   *)
(* and the listen list stored in upsd.conf are the new records alone  *)
(* if the existing entries are not kept, and the existing entries     *)
(* followed by the new records, both in their order, if they are.     *)
(* ------------------------------------------------------------------ *)
C11_ListReplace ==
    /\ \A k \in Stores(UpsmonConf) :
          /\ k > 1 /\ io[k - 1].op = "source" /\ io[k - 1].file = UpsmonConf
          /\ io[k].conf.monitors =
                IF options.add_monitor_cnt > 0
                THEN Found(k - 1, UpsmonConfiguration).monitors \o NewMonitors
                ELSE NewMonitors
    /\ \A k \in Stores(UpsdConf) :
          /\ k > 1 /\ io[k - 1].op = "source" /\ io[k - 1].file = UpsdConf
          /\ io[k].conf.listens =
                IF options.add_listen_cnt > 0
                THEN Found(k - 1, UpsdConfiguration).listens \o NewListens
                ELSE NewListens

C11_Witness ==
    /\ exited
    /\ \E k \in Stores(UpsmonConf) :
          /\ options.add_monitor_cnt > 0
          /\ io[k - 1].state = "parsed"
          /\ Len(io[k - 1].conf.monitors) = 2
          /\ Len(io[k].conf.monitors) = 3
          /\ io[k].conf.monitors[3].upsname = Arg("f")
    /\ \E k \in Stores(UpsdConf) :
          /\ options.set_listen_cnt > 0
          /\ io[k - 1].state = "parsed"
          /\ Len(io[k - 1].conf.listens) = 2
          /\ Len(io[k].conf.listens) = 1

(* ------------------------------------------------------------------ *)
(* C12 (as claimed): device merge.  In the sections stored in         *)
(* ups.conf, the global section is as it was found; if the existing   *)
(* devices are kept, every existing device that is not among the new  *)
(* records is as it was found and every new record has its section    *)
(* with its driver and port; if they are not kept, the named sections *)
(* are exactly the ids of the new records.                            *)
(* ------------------------------------------------------------------ *)
DeviceIds == {options.devices[k].id : k \in 1..Len(options.devices)}

(* The last record given for the device id *)
LastRecord(id) ==
    LET at == {k \in 1..Len(options.devices) : options.devices[k].id = id}
    IN  options.devices[CHOOSE k \in at : \A j \in at : j <= k]

C12_DeviceMerge ==
    \A k \in Stores(UpsConf) :
        LET E == Found(k - 1, UpsConfiguration).sections
            S == io[k].conf.sections
        IN  /\ (<<>> \in DOMAIN E) <=> (<<>> \in DOMAIN S)
            /\ <<>> \in DOMAIN E => S[<<>>] = E[<<>>]
            /\ \A id \in DeviceIds :
                  /\ id \in DOMAIN S
                  /\ S[id]["driver"] = LastRecord(id).driver
                  /\ S[id]["port"] = LastRecord(id).port
            /\ IF options.add_device_cnt > 0
               THEN \A id \in DOMAIN E \ DeviceIds : id \in DOMAIN S /\ S[id] = E[id]
               ELSE DOMAIN S \ {<<>>} = DeviceIds

(* ------------------------------------------------------------------ *)
(* C13: upsert idempotence.  When the existing devices are kept,      *)
(* applying a device record twice gives the sections that applying it *)
(* once gives, and merging the same records again into the stored     *)
(* sections leaves them as they are.                                  *)
(* ------------------------------------------------------------------ *)
C13_UpsertIdempotent ==
    \A k \in Stores(UpsConf) :
        options.add_device_cnt > 0 =>
            LET E == Found(k - 1, UpsConfiguration).sections
            IN  /\ \A n \in 1..Len(options.devices) :
                      SetDevice(SetDevice(E, options.devices[n]), options.devices[n])
                        = SetDevice(E, options.devices[n])
                /\ (Len(options.devices) = 2 /\ options.devices[1] = options.devices[2])
                      => io[k].conf.sections = SetDevice(E, options.devices[1])
                /\ MergeDevices(io[k].conf, options.devices, TRUE)
                      = {[crash |-> FALSE, config |-> io[k].conf]}

C13_Witness ==
    /\ exited
    /\ options.add_device_cnt = 2
    /\ Len(options.devices) = 2
    /\ options.devices[1] = options.devices[2]
    /\ options.devices[1].desc # <<>>
    /\ \E k \in Stores(UpsConf) :
          /\ io[k - 1].state = "parsed"
          /\ options.devices[1].id \notin DOMAIN io[k - 1].conf.sections
          /\ Arg("a") \in DOMAIN io[k].conf.sections

(* ------------------------------------------------------------------ *)
(* C14 (as claimed): a record that cannot be built is fatal for the   *)
(* whole operation.  A step of the run that builds the monitor        *)
(* records, or the listen records, and meets one whose port or power  *)
(* value does not parse ends the run with failure, and the run has    *)
(* written none of upsmon.conf, upsd.conf and ups.conf.               *)
(* ------------------------------------------------------------------ *)
BadMonitor ==
    \E k \in 1..(Len(options.monitors) \div 6) : monitor(k - 1).exits # NotExited

BadListen ==
    \E k \in 1..Len(options.listen_addrs) : listenAddr(k - 1).exits # NotExited

BuildsBadRecord ==
    \/ pc = "monitors" /\ BadMonitor
    \/ pc = "listen" /\ BadListen

C14_FatalRecord ==
    [][BuildsBadRecord =>
          /\ pc' = "exit"
          /\ exit_code' = 1
          /\ \A k \in 1..Len(io') : ~(io'[k].op = "store" /\ io'[k].state = "written")]_vars

(* ------------------------------------------------------------------ *)
(* C15 (as claimed): exit code on invalid options.  A run whose       *)
(* validation yields valid = false exits with code 1, and a run exits *)
(* with code 0 only on success or on a true --is-configured query.    *)
(* ------------------------------------------------------------------ *)
(* Nothing went wrong with the directory or with a section *)
NoFailure ==
    \A k \in 1..Len(io) : io[k].state \notin {"missing", "unparsable", "failed"}

(* Every family that has records has its section written *)
Success ==
    /\ options.valid
    /\ ~options.is_configured
    /\ NoFailure
    /\ options.monitors # <<>> => Stores(UpsmonConf) # {}
    /\ options.listen_addrs # <<>> => Stores(UpsdConf) # {}
    /\ options.devices # <<>> => Stores(UpsConf) # {}

TrueQuery ==
    /\ options.valid
    /\ options.is_configured
    /\ \E k \in 1..Len(io) :
          /\ io[k].op = "isConfigured"
          /\ io[k].state \in {"MODE_STANDALONE", "MODE_NETSERVER"}

HelpRequested == exists(s_help)

SectionRank(file) ==
    IF file = UpsmonConf THEN 1 ELSE IF file = UpsdConf THEN 2 ELSE 3

EventsOn(file) == {k \in SectionEvents : io[k].file = file}

C16_ValidationGates ==
    /\ SectionEvents # {} =>
          /\ pc \in {"listen", "devices", "exit"}
          /\ options.valid
          /\ EventsOn(UpsmonConf) # {} => options.monitors # <<>>
          /\ EventsOn(UpsdConf) # {} => options.listen_addrs # <<>>
          /\ EventsOn(UpsConf) # {} => options.devices # <<>>
    /\ \A k \in SectionEvents :
          /\ io[k].file \in {UpsmonConf, UpsdConf, UpsConf}
          /\ \A j \in SectionEvents :
                j < k => SectionRank(io[j].file) <= SectionRank(io[k].file)
          /\ io[k].op = "source" =>
                \A j \in SectionEvents : (j # k /\ io[j].op = "source") => io[j].file # io[k].file
          /\ io[k].op = "store" =>
                k > 1 /\ io[k - 1].op = "source" /\ io[k - 1].file = io[k].file

C16_Witness ==
    /\ exited
    /\ exit_code = 0
    /\ options.listen_addrs = <<>>
    /\ \E j \in Stores(UpsmonConf) : \E k \in Stores(UpsConf) : j < k

(* ------------------------------------------------------------------ *)
(* C17: an --is-configured query is read-only.  A run whose valid     *)
(* options include --is-configured never reaches a merge step, never  *)
(* sources or stores a section, and exits with 0 if nut.conf gives a  *)
(* configured mode and with 1 otherwise.                              *)
(* ------------------------------------------------------------------ *)
C17_QueryReadOnly ==
    (pc \in {"constructed", "monitors", "listen", "devices", "exit"}
        /\ options.valid /\ options.is_configured) =>
        /\ pc \in {"constructed", "exit"}
        /\ SectionEvents = {}
        /\ exited =>
              /\ exit_code \in {0, 1}
              /\ exit_code = 0 <=>
                    \E k \in 1..Len(io) :
                        /\ io[k].op = "isConfigured"
                        /\ io[k].state \in {"MODE_STANDALONE", "MODE_NETSERVER"}

C17_Witness ==
    /\ exited
    /\ options.valid
    /\ options.is_configured
    /\ options.monitors # <<>>
    /\ exit_code = 0

====
